---- MODULE Spec2Model ----
(***************************************************************************)
(* A model of the 3D model viewer: ModelManager.load and                   *)
(* ModelManager.frameObject (src/model-manager.js) and the viewer's        *)
(* setVariant / frameObject (src/index.js, src/unnamed/part_000).          *)
(*                                                                         *)
(* Three specifications share one set of variables:                        *)
(*   SpecFrame   the two camera-framing routines applied to a camera,      *)
(*   SpecDist    ModelManager.frameObject with its distances recorded,     *)
(*   SpecLoad    one call of ModelManager.load and its callbacks,          *)
(*   SpecViewer  the variant selector, its pending loads and the scene.    *)
(*                                                                         *)
(* Numbers.  A coordinate is an exact rational [n, d].  A non-negative     *)
(* scalar of the framing arithmetic (a length, a distance, tan, padding,   *)
(* a clip plane) is represented by its SQUARE, again an exact rational:    *)
(* products, quotients and comparisons of non-negative reals carry over    *)
(* to their squares, and tan(30 deg)^2 = 1/3 and the length of a box       *)
(* diagonal, x^2+y^2+z^2, are then exact.  Floating-point rounding is not  *)
(* modelled.                                                               *)
(***************************************************************************)
EXTENDS Integers, Sequences, FiniteSets, TLC

VARIABLES
    \* --- camera and orbit controls (shared by both framing routines)
    camera,        \* [position, near, far, fov]
    target,        \* controls.target
    last,          \* <<the most recent framing call>>, or <<>>
    samples,       \* the distances the last two sampled framing calls computed
    repeat,        \* <<pose before the framing call just made>> when that call
                   \* repeated the call before it with nothing in between, else <<>>
    \* --- one call of ModelManager.load
    lpc,           \* where the call is
    signal,        \* [given, aborted]: the caller's AbortSignal (options.signal)
    envMapHDR,     \* options.envMapHDR is given
    assetBox,      \* bounding box of the asset the backend delivers
    listener,      \* the "abort" listener of line 38 is registered
    requests,      \* number of gltf.load calls issued
    backend,       \* backend loader: "idle", "inflight", "success", "error"
    primary,       \* the promise of lines 31-39
    envBackend,    \* HDR loader: "idle", "inflight", "success", "error"
    meshes,        \* the mesh nodes of the asset's root
    log,           \* what load did to the HDR texture and the probe, in order
    outcome,       \* how the promise returned by load settled
    settled,       \* how many times it settled
    result,        \* <<the value load resolved to>>, or <<>>
    abortedEarly,  \* the signal was aborted before the backend's callback
    \* --- the viewer
    sceneModels,   \* variant models that are children of the scene
    currentModel,  \* the module-level slot
    cache,         \* Map name -> model
    pending,       \* setVariant invocations awaiting their loader callback
    nextObj,       \* objects created by the loader so far
    lastSelected,  \* the last valid variant passed to setVariant
    anyFailed,     \* some loader call reported an error
    gridY,         \* grid.position.y
    status         \* statusEl.textContent

frameVars  == <<camera, target, last, samples, repeat>>
loadVars   == <<lpc, signal, envMapHDR, assetBox, listener, requests, backend,
                primary, envBackend, meshes, log, outcome, settled, result,
                abortedEarly>>
viewerVars == <<sceneModels, currentModel, cache, pending, nextObj,
                lastSelected, anyFailed, gridY, status>>
vars == <<frameVars, loadVars, viewerVars>>

(***************************************************************************)
(* Exact rationals                                                         *)
(***************************************************************************)
RECURSIVE GCD(_, _)
GCD(a, b) == IF b = 0 THEN a ELSE GCD(b, a % b)

Abs(x) == IF x < 0 THEN -x ELSE x

\* n/d in lowest terms with a positive denominator (d # 0)
Rat(n, d) ==
    LET g == GCD(Abs(n), Abs(d))
        s == IF d < 0 THEN -1 ELSE 1
    IN  [n |-> (s * n) \div g, d |-> (s * d) \div g]

RInt(k)    == Rat(k, 1)
\* Common factors are cancelled before multiplying, to keep the integers small;
\* the operands being in lowest terms, so is the product.
Cancel(x, y) == LET g == GCD(Abs(x), Abs(y)) IN IF g = 0 THEN 1 ELSE g
RMul(a, b) ==
    LET g == Cancel(a.n, b.d)
        h == Cancel(b.n, a.d)
    IN  [n |-> (a.n \div g) * (b.n \div h), d |-> (a.d \div h) * (b.d \div g)]
\* b > 0
RDiv(a, b) == RMul(a, [n |-> b.d, d |-> b.n])
RLt(a, b)  ==
    LET g == Cancel(a.n, b.n)
        h == Cancel(a.d, b.d)
    IN  (a.n \div g) * (b.d \div h) < (b.n \div g) * (a.d \div h)
\* the representation of the non-negative rational r: its square
Sq(r)      == RMul(r, r)

Max2(a, b) == IF a >= b THEN a ELSE b

(***************************************************************************)
(* Bounds                                                                  *)
(***************************************************************************)
\* largest axis extent of a node's bounding box
MaxExtent == 2

(***************************************************************************)
(* Bounding boxes (THREE.Box3): integer corners, min <= max on every axis  *)
(***************************************************************************)
\* the min corner of every box the model draws
MinCorner == <<-1, -1, -1>>

Boxes ==
    { [min |-> MinCorner,
       max |-> <<MinCorner[1] + e[1], MinCorner[2] + e[2], MinCorner[3] + e[3]>>]
      : e \in (0..MaxExtent) \X (0..MaxExtent) \X (0..MaxExtent) }

\* Box3.getSize: max - min
GetSize(box) ==
    <<box.max[1] - box.min[1], box.max[2] - box.min[2], box.max[3] - box.min[3]>>

\* Box3.getCenter: (min + max) / 2
GetCenter(box) ==
    <<Rat(box.min[1] + box.max[1], 2),
      Rat(box.min[2] + box.max[2], 2),
      Rat(box.min[3] + box.max[3], 2)>>

(***************************************************************************)
(* The camera                                                              *)
(***************************************************************************)
\* vertical fields of view (degrees) a caller's camera may have
Fovs == {60, 90}

\* Math.tan of half the field of view, squared: tan(30 deg)^2, tan(45 deg)^2
TanHalfSq(fov) ==
    CASE fov = 60  -> Rat(1, 3)
      [] fov = 90  -> Rat(1, 1)

\* A position is base + along * normalize(1, 0.6, 1); `along` is a scalar.
Point(x, y, z) == <<RInt(x), RInt(y), RInt(z)>>
At(base)       == [base |-> base, along |-> RInt(0)]

\* new THREE.PerspectiveCamera(60, w / h, 0.1, 1000); camera.position.set(3, 2, 5)
InitialCamera ==
    [position |-> At(Point(3, 2, 5)),
     near     |-> Sq(Rat(1, 10)),
     far      |-> Sq(RInt(1000)),
     fov      |-> 60]

\* new OrbitControls(camera, ...): the target starts at the origin
InitialTarget == Point(0, 0, 0)

\* positions the user's orbiting can leave the camera at
UserPositions == { At(Point(3, 2, 5)), At(Point(0, 0, 8)) }

(***************************************************************************)
(* ModelManager.frameObject                                                *)
(***************************************************************************)
\* padding = 1.25
DefaultPadding == Sq(Rat(5, 4))

\* paddings a caller passes
Paddings == { Sq(RInt(1)), Sq(RInt(2)) }

\* the padding parameter: args is <<>> (argument omitted) or <<padding>>
PaddingArg(args) == IF args = <<>> THEN DefaultPadding ELSE args[1]

\* a faulty variant: the depth alone, size.z
MaxDimDepthOnly(size) == Sq(RInt(size[3]))

\* Math.max(size.x, size.y, size.z)
MaxDim(size) == Sq(RInt(Max2(Max2(size[1], size[2]), size[3])))

\* a faulty variant: divided by the padding instead of multiplied
FrameDistDivided(maxDim, fov, padding) ==
    RDiv(RDiv(maxDim, RMul(Sq(RInt(2)), TanHalfSq(fov))), padding)

\* (maxDim / (2 * Math.tan(fov / 2))) * padding
FrameDist(maxDim, fov, padding) ==
    RMul(RDiv(maxDim, RMul(Sq(RInt(2)), TanHalfSq(fov))), padding)

\* a faulty variant: camera.position.add(...) without copy(center): the camera keeps its
\* base and a repeated call moves it as far again, to twice the distance
FramePositionAdded(center, position, dist) ==
    [base  |-> position.base,
     along |-> IF position.along = dist THEN RMul(Sq(RInt(2)), dist) ELSE dist]

\* camera.position.copy(center).add(dir.multiplyScalar(dist))
FramePosition(center, position, dist) == [base |-> center, along |-> dist]

\* camera.near = dist / 100
FrameNear(maxDim, dist) == RDiv(dist, Sq(RInt(100)))

\* a faulty variant: the far plane from the object's size, as the viewer's routine does
FrameFarFromSize(maxDim, dist) == RMul(maxDim, Sq(RInt(10)))

\* camera.far = dist * 100
FrameFar(maxDim, dist) == RMul(dist, Sq(RInt(100)))

\* The camera and the controls after frameObject(object, camera, controls, padding).
\* controls.update() re-derives the camera's orientation from the target and
\* leaves its position where it is (no pointer input is pending).
FrameObject(box, cam, args) ==
    LET size   == GetSize(box)
        center == GetCenter(box)
        maxDim == MaxDim(size)
        dist   == FrameDist(maxDim, cam.fov, PaddingArg(args))
    IN  [camera |-> [cam EXCEPT !.position = FramePosition(center, cam.position, dist),
                                !.near     = FrameNear(maxDim, dist),
                                !.far      = FrameFar(maxDim, dist)],
         target |-> center,
         size   |-> maxDim,
         dist   |-> dist]

(***************************************************************************)
(* The viewer's frameObject                                                *)
(***************************************************************************)
\* box.getSize(new THREE.Vector3()).length()
DiagLength(size) == RInt(size[1] * size[1] + size[2] * size[2] + size[3] * size[3])

\* the factor of fitDist * 1.3
ViewerPadding == Sq(Rat(13, 10))

\* size / (2 * Math.tan((cam.fov * Math.PI) / 360))
FitDist(size, fov) == RDiv(size, RMul(Sq(RInt(2)), TanHalfSq(fov)))

ViewerFrameObject(box, cam) ==
    LET size    == DiagLength(GetSize(box))
        center  == GetCenter(box)
        fitDist == FitDist(size, cam.fov)
        dist    == RMul(fitDist, ViewerPadding)
    IN  [camera |-> [cam EXCEPT !.position = [base |-> center, along |-> dist],
                                !.near     = RDiv(size, Sq(RInt(100))),
                                !.far      = RMul(size, Sq(RInt(10)))],
         target |-> center,
         size   |-> size,
         dist   |-> dist]

(***************************************************************************)
(* Framing calls and their history                                         *)
(***************************************************************************)
Pose == [camera |-> camera, target |-> target]

CallRecord(op, box, fov, args, r) ==
    [op |-> op, box |-> box, fov |-> fov, args |-> args,
     size |-> r.size, dist |-> r.dist, undisturbed |-> TRUE]

\* the bookkeeping every framing call does: op is "manager" or "viewer"
Framed(op, box, args, r) ==
    /\ camera' = r.camera
    /\ target' = r.target
    /\ last'   = << CallRecord(op, box, camera.fov, args, r) >>
    /\ repeat' = IF /\ last # <<>>
                    /\ last[1].undisturbed
                    /\ last[1].op = op /\ last[1].box = box /\ last[1].args = args
                 THEN << Pose >> ELSE <<>>

\* modelManager.frameObject(object, camera, controls[, padding])
ManagerFrame(box, args) ==
    /\ Framed("manager", box, args, FrameObject(box, camera, args))
    /\ UNCHANGED <<samples, loadVars, viewerVars>>

\* the same call, with the distance it computed kept next to the one the call
\* before it computed for the same camera.fov
Sample(fov, args, r) ==
    [fov |-> fov, padding |-> PaddingArg(args), size |-> r.size, dist |-> r.dist]

SampledFrame(box, args) ==
    LET r == FrameObject(box, camera, args)
        s == Sample(camera.fov, args, r)
    IN  /\ Framed("manager", box, args, r)
        /\ samples' = IF samples # <<>> /\ samples[Len(samples)].fov = camera.fov
                      THEN << samples[Len(samples)], s >>
                      ELSE << s >>
        /\ UNCHANGED <<loadVars, viewerVars>>

\* frameObject(object, camera, controls) of the viewer
ViewerFrame(box) ==
    /\ Framed("viewer", box, <<>>, ViewerFrameObject(box, camera))
    /\ UNCHANGED <<samples, loadVars, viewerVars>>

Disturb == IF last = <<>> THEN <<>> ELSE << [last[1] EXCEPT !.undisturbed = FALSE] >>

\* the user orbits: OrbitControls moves the camera
MoveCamera(p) ==
    /\ camera.position # p
    /\ camera' = [camera EXCEPT !.position = p]
    /\ last'   = Disturb
    /\ repeat' = <<>>
    /\ UNCHANGED <<target, samples, loadVars, viewerVars>>

\* the caller changes the camera's field of view
SetFov(f) ==
    /\ camera.fov # f
    /\ camera' = [camera EXCEPT !.fov = f]
    /\ last'   = Disturb
    /\ repeat' = <<>>
    /\ UNCHANGED <<target, samples, loadVars, viewerVars>>

FrameArgs == {<<>>} \cup { <<p>> : p \in Paddings }

InitFrame ==
    /\ camera = InitialCamera
    /\ target = InitialTarget
    /\ last   = <<>>
    /\ samples = <<>>
    /\ repeat = <<>>

NextFrame ==
    \/ \E b \in Boxes, a \in FrameArgs : ManagerFrame(b, a)
    \/ \E b \in Boxes : ViewerFrame(b)
    \/ \E p \in UserPositions : MoveCamera(p)
    \/ \E f \in Fovs : SetFov(f)

\* a caller's camera with any of the fields of view, before it is framed
InitDist ==
    /\ camera \in { [InitialCamera EXCEPT !.fov = f] : f \in Fovs }
    /\ target = InitialTarget
    /\ last   = <<>>
    /\ samples = <<>>
    /\ repeat = <<>>

NextDist == \E b \in Boxes, a \in FrameArgs : SampledFrame(b, a)

(***************************************************************************)
(* ModelManager.load(url, { signal, envMapHDR })                           *)
(***************************************************************************)
\* mesh nodes in the asset the backend delivers
NumMeshes == 2

\* A mesh as the backend delivers it: hasMap is material.map.isTexture,
\* hasEnvMap is ("envMap" in material).
FreshMesh(hasMap, hasEnvMap) ==
    [castShadow |-> FALSE, receiveShadow |-> FALSE,
     hasMap |-> hasMap, colorSpace |-> "",
     hasEnvMap |-> hasEnvMap, envMap |-> "null"]

MeshKinds == { FreshMesh(m, e) : m \in BOOLEAN, e \in BOOLEAN }

\* lines 43-50: root.traverse, for every mesh
PostProcess(ms) ==
    [i \in DOMAIN ms |->
        [ms[i] EXCEPT !.castShadow = TRUE,
                      !.receiveShadow = TRUE,
                      !.colorSpace = IF ms[i].hasMap THEN "srgb" ELSE @]]

\* line 59: root.traverse, assigning the probe
AssignEnv(ms) ==
    [i \in DOMAIN ms |->
        [ms[i] EXCEPT !.envMap = IF ms[i].hasEnvMap THEN "env" ELSE @]]

\* lines 64-67: the value load returns
LoadResult(box) ==
    [root |-> "root", bbox |-> box, size |-> GetSize(box), center |-> GetCenter(box)]

\* the promise returned by load settles
Settle(how) ==
    /\ lpc' = "done"
    /\ outcome' = how
    /\ settled' = settled + 1
    /\ result' = IF how = "Asset" THEN << LoadResult(assetBox) >> ELSE <<>>

\* lines 28-38, up to the first await: the one backend request is issued, then
\* the "abort" listener is added to options.signal or, without one, to the signal
\* of a fresh AbortController (adding a listener to an already aborted signal
\* does not fire it)
LoadCall ==
    /\ lpc = "start"
    /\ lpc' = "awaitPrimary"
    /\ requests' = requests + 1
    /\ backend' = "inflight"
    /\ listener' = TRUE
    /\ UNCHANGED <<signal, envMapHDR, assetBox, primary, envBackend, meshes, log,
                   outcome, settled, result, abortedEarly, frameVars, viewerVars>>

\* what the listener of line 38 does to the promise of lines 31-39
OnAbort(p) == IF p = "pending" THEN "rejectedAbort" ELSE p

\* the caller aborts its signal (at any time, also before load is called)
Abort ==
    /\ signal.given /\ ~signal.aborted
    /\ signal' = [signal EXCEPT !.aborted = TRUE]
    /\ primary' = IF listener THEN OnAbort(primary) ELSE primary
    /\ abortedEarly' = (abortedEarly \/ backend \in {"idle", "inflight"})
    /\ UNCHANGED <<lpc, envMapHDR, assetBox, listener, requests, backend, envBackend,
                   meshes, log, outcome, settled, result, frameVars, viewerVars>>

\* line 34: (asset) => resolve(asset)
OnLoad(p) == IF p = "pending" THEN "resolved" ELSE p

\* line 36: (e) => reject(e)
OnError(p) == IF p = "pending" THEN "rejectedError" ELSE p

\* the backend loader calls its success callback
BackendSuccess ==
    /\ backend = "inflight"
    /\ backend' = "success"
    /\ primary' = OnLoad(primary)
    /\ UNCHANGED <<lpc, signal, envMapHDR, assetBox, listener, requests, envBackend,
                   meshes, log, outcome, settled, result, abortedEarly,
                   frameVars, viewerVars>>

\* the backend loader calls its error callback
BackendError ==
    /\ backend = "inflight"
    /\ backend' = "error"
    /\ primary' = OnError(primary)
    /\ UNCHANGED <<lpc, signal, envMapHDR, assetBox, listener, requests, envBackend,
                   meshes, log, outcome, settled, result, abortedEarly,
                   frameVars, viewerVars>>

\* how load settles when the promise of lines 31-39 rejected
PrimaryRejection(p) == IF p = "rejectedAbort" THEN "Cancelled" ELSE "LoadFailed"

\* the continuation of the await of line 31, lines 42-57 or 42-67.  With
\* envMapHDR the executor of line 54 imports RGBELoader and calls its load
\* (the await of line 55 stands in a function that is not async; the model
\* takes the evident reading, the loader being called once it is imported).
ResumePrimary ==
    /\ lpc = "awaitPrimary"
    /\ primary # "pending"
    /\ IF primary = "resolved"
       THEN /\ meshes' = PostProcess(meshes)
            /\ IF envMapHDR
               THEN /\ lpc' = "awaitEnv"
                    /\ envBackend' = "inflight"
                    /\ UNCHANGED <<outcome, settled, result>>
               ELSE /\ Settle("Asset")
                    /\ UNCHANGED envBackend
       ELSE /\ Settle(PrimaryRejection(primary))
            /\ UNCHANGED <<meshes, envBackend>>
    /\ UNCHANGED <<signal, envMapHDR, assetBox, listener, requests, backend, primary,
                   log, abortedEarly, frameVars, viewerVars>>

\* the HDR loader calls res (line 56)
EnvSuccess ==
    /\ envBackend = "inflight"
    /\ envBackend' = "success"
    /\ UNCHANGED <<lpc, signal, envMapHDR, assetBox, listener, requests, backend,
                   primary, meshes, log, outcome, settled, result, abortedEarly,
                   frameVars, viewerVars>>

\* the HDR loader calls rej (line 56)
EnvError ==
    /\ envBackend = "inflight"
    /\ envBackend' = "error"
    /\ UNCHANGED <<lpc, signal, envMapHDR, assetBox, listener, requests, backend,
                   primary, meshes, log, outcome, settled, result, abortedEarly,
                   frameVars, viewerVars>>

\* how load settles when the promise of lines 54-57 rejected: nothing catches it
EnvRejection == "EnvFailed"

\* lines 58-60 when pmrem.fromEquirectangular returns: what is done, in order
EnvSteps == <<"probe", "assign", "dispose">>

\* the continuation of the await of line 54, lines 58-67.  probeThrows: the
\* call pmrem.fromEquirectangular(tex) of line 58 throws, and the exception
\* leaves load before lines 59 and 60.
ResumeEnv(probeThrows) ==
    /\ lpc = "awaitEnv"
    /\ envBackend \in {"success", "error"}
    /\ IF envBackend = "error"
       THEN /\ Settle(EnvRejection)
            /\ UNCHANGED <<meshes, log>>
       ELSE IF probeThrows
       THEN /\ Settle("ProbeFailed")
            /\ log' = <<"probeThrew">>
            /\ UNCHANGED meshes
       ELSE /\ log' = EnvSteps
            /\ meshes' = AssignEnv(meshes)
            /\ Settle("Asset")
    /\ UNCHANGED <<signal, envMapHDR, assetBox, listener, requests, backend, primary,
                   envBackend, abortedEarly, frameVars, viewerVars>>

InitLoad ==
    /\ lpc = "start"
    /\ signal \in { [given |-> g, aborted |-> FALSE] : g \in BOOLEAN }
    /\ envMapHDR \in BOOLEAN
    /\ assetBox \in Boxes
    /\ listener = FALSE
    /\ requests = 0
    /\ backend = "idle"
    /\ primary = "pending"
    /\ envBackend = "idle"
    /\ meshes \in [1..NumMeshes -> MeshKinds]
    /\ log = <<>>
    /\ outcome = "none"
    /\ settled = 0
    /\ result = <<>>
    /\ abortedEarly = FALSE

NextLoad ==
    \/ LoadCall
    \/ Abort
    \/ BackendSuccess
    \/ BackendError
    \/ ResumePrimary
    \/ EnvSuccess
    \/ EnvError
    \/ \E t \in BOOLEAN : ResumeEnv(t)

(***************************************************************************)
(* The viewer: setVariant, the loader callbacks and the recenter button    *)
(***************************************************************************)
\* loader.load calls the model may start
MaxLoads == 3

\* keys of VARIANTS (those common to both versions of the viewer)
Variants == {"plus1pm", "plus2pm", "plusi4"}

\* values the <select> may hold: the keys and one that is no key
SelectValues == Variants \cup {"other"}

\* `Loaded: ${cfg.label}`
LoadedStatus(name) ==
    CASE name = "plus1pm" -> "Loaded: Shelly Plus 1PM"
      [] name = "plus2pm" -> "Loaded: Shelly Plus 2PM"
      [] name = "plusi4"  -> "Loaded: Shelly Plus i4"

\* the bounding box of the model each asset file holds
VariantBox(name) ==
    CASE name = "plus1pm" -> [min |-> <<-1, -1, -1>>, max |-> <<1, 1, 1>>]
      [] name = "plus2pm" -> [min |-> <<-1, 0, -1>>,  max |-> <<1, 1, 0>>]
      [] name = "plusi4"  -> [min |-> <<0, -1, 0>>,   max |-> <<1, 0, 2>>]

\* gltf.scene of one loader call: a new object each time
Model(name, obj) == [variant |-> name, obj |-> obj]

\* placeGridAtModelFloor: grid.position.y = box.min.y
GridFloor(box) == RInt(box.min[2])

\* lines 94-98: the model becomes the displayed one
Display(model) ==
    LET box == VariantBox(model.variant)
    IN  /\ currentModel' = << model >>
        /\ Framed("viewer", box, <<>>, ViewerFrameObject(box, camera))
        /\ UNCHANGED samples
        /\ gridY' = GridFloor(box)
        /\ status' = LoadedStatus(model.variant)

\* lines 80-83: scene.remove(currentModel)
WithoutCurrent == IF currentModel = <<>> THEN sceneModels
                  ELSE sceneModels \ {currentModel[1]}

\* lines 94-95 after a load: scene.add(currentModel)
SceneAfterLoad(model) == sceneModels \cup {model}

\* setVariant(name), up to its await (lines 76-89) or, on a cache hit, to its
\* end (lines 76-98)
SetVariant(name) ==
    /\ name \in Variants => (cache[name] # <<>> \/ nextObj < MaxLoads)
    /\ IF name \notin Variants
       THEN UNCHANGED <<frameVars, viewerVars>>
       ELSE /\ lastSelected' = << name >>
            /\ IF cache[name] # <<>>
               THEN /\ sceneModels' = WithoutCurrent \cup {cache[name][1]}
                    /\ Display(cache[name][1])
                    /\ UNCHANGED <<cache, pending, nextObj, anyFailed>>
               ELSE /\ sceneModels' = WithoutCurrent
                    /\ currentModel' = <<>>
                    /\ nextObj' = nextObj + 1
                    /\ pending' = pending \cup {Model(name, nextObj + 1)}
                    /\ UNCHANGED <<cache, anyFailed, gridY, status, frameVars>>
    /\ UNCHANGED loadVars

\* the loader calls (gltf) => resolve(gltf.scene): lines 90-98 run
LoaderSuccess(model) ==
    /\ model \in pending
    /\ pending' = pending \ {model}
    /\ cache' = [cache EXCEPT ![model.variant] = << model >>]
    /\ sceneModels' = SceneAfterLoad(model)
    /\ Display(model)
    /\ UNCHANGED <<nextObj, lastSelected, anyFailed, loadVars>>

\* the loader calls reject: setVariant's promise rejects at line 87
LoaderError(model) ==
    /\ model \in pending
    /\ pending' = pending \ {model}
    /\ anyFailed' = TRUE
    /\ UNCHANGED <<sceneModels, currentModel, cache, nextObj, lastSelected, gridY,
                   status, frameVars, loadVars>>

\* recenterBtn "click"
Recenter ==
    /\ IF currentModel # <<>>
       THEN /\ Framed("viewer", VariantBox(currentModel[1].variant), <<>>,
                      ViewerFrameObject(VariantBox(currentModel[1].variant), camera))
            /\ UNCHANGED samples
            /\ status' = "Re-centered"
       ELSE UNCHANGED <<frameVars, status>>
    /\ UNCHANGED <<sceneModels, currentModel, cache, pending, nextObj, lastSelected,
                   anyFailed, gridY, loadVars>>

InitViewer ==
    /\ sceneModels = {}
    /\ currentModel = <<>>
    /\ cache = [v \in Variants |-> <<>>]
    /\ pending = {}
    /\ nextObj = 0
    /\ lastSelected = <<>>
    /\ anyFailed = FALSE
    /\ gridY = RInt(0)
    /\ status = ""

NextViewer ==
    \/ \E v \in SelectValues : SetVariant(v)
    \/ \E m \in pending : LoaderSuccess(m)
    \/ \E m \in pending : LoaderError(m)
    \/ Recenter

(***************************************************************************)
(* Specifications                                                          *)
(***************************************************************************)
\* the state of load before it is called, for the specifications without it
IdleLoad ==
    /\ InitLoad
    /\ ~signal.given /\ ~envMapHDR
    /\ assetBox = VariantBox("plus1pm")
    /\ meshes = [i \in 1..NumMeshes |-> FreshMesh(FALSE, FALSE)]

\* a camera about to be framed; load not called, nothing selected
FrameStart  == InitFrame /\ IdleLoad /\ InitViewer
\* the same, the camera having any of the fields of view
DistStart   == InitDist /\ IdleLoad /\ InitViewer
\* a ModelManager about to be asked for a load
LoadStart   == InitFrame /\ InitLoad /\ InitViewer
\* the viewer before its first setVariant (line 190)
ViewerStart == InitFrame /\ IdleLoad /\ InitViewer

SpecFrame  == FrameStart /\ [][NextFrame]_vars
SpecDist   == DistStart /\ [][NextDist]_vars
SpecLoad   == LoadStart /\ [][NextLoad]_vars
SpecViewer == ViewerStart /\ [][NextViewer]_vars

(***************************************************************************)
(* What the claims say, written from their words                           *)
(***************************************************************************)
Hundred == Sq(RInt(100))
Zero    == RInt(0)

\* the largest single axis extent of a box
LargestExtent(box) ==
    LET e == { box.max[i] - box.min[i] : i \in 1..3 }
    IN  Sq(RInt(CHOOSE m \in e : \A k \in e : k <= m))

\* d = (size / (2 * tan(fov / 2))) * padding
ClaimedDist(size, fov, padding) ==
    RMul(RDiv(size, RMul(Sq(RInt(2)), TanHalfSq(fov))), padding)

\* the padding of a framing call, 1.25 when none is passed
ClaimedPadding(c) == IF c.args = <<>> THEN Sq(Rat(5, 4)) ELSE c.args[1]

\* the length of a box's diagonal
Diagonal(box) ==
    LET e == [i \in 1..3 |-> box.max[i] - box.min[i]]
    IN  RInt(e[1] * e[1] + e[2] * e[2] + e[3] * e[3])

\* the camera stands at center + normalize(1, 0.6, 1) * d and orbits center
PoseIs(center, d) ==
    /\ target = center
    /\ camera.position = [base |-> center, along |-> d]

ManagerCalled == last # <<>> /\ last[1].op = "manager"
ViewerCalled  == last # <<>> /\ last[1].op = "viewer"

(***************************************************************************)
(* C4  ModelManager.frameObject: clip planes                               *)
(***************************************************************************)
\* C4 as claimed: after every call of ModelManager.frameObject, near < far,
\* near = d / 100 and far = d * 100, for every bounding box, field of view and
\* padding.
C4_Original ==
    ManagerCalled =>
        /\ RLt(camera.near, camera.far)
        /\ camera.near = RDiv(last[1].dist, Hundred)
        /\ camera.far  = RMul(last[1].dist, Hundred)

\* C4 amended: after every call of ModelManager.frameObject near = d / 100 and
\* far = d * 100; near < far whenever the box's largest extent is positive
\* (then d > 0), and near = far = 0 for a box of zero size.
C4_ClipPlanes ==
    ManagerCalled =>
        /\ camera.near = RDiv(last[1].dist, Hundred)
        /\ camera.far  = RMul(last[1].dist, Hundred)
        /\ LargestExtent(last[1].box) # Zero => RLt(camera.near, camera.far)
        /\ LargestExtent(last[1].box) = Zero =>
               camera.near = Zero /\ camera.far = Zero

\* the scenario of the specification: box [-1,-1,-1]..[1,1,1], fov 60, padding
\* 1.25: d = 2.165 (d^2 = 75/16), near = d / 100, far = d * 100
C4_Witness ==
    /\ ManagerCalled
    /\ last[1].box = [min |-> <<-1, -1, -1>>, max |-> <<1, 1, 1>>]
    /\ last[1].fov = 60 /\ last[1].args = <<>>
    /\ last[1].dist = Rat(75, 16)
    /\ camera.near = Rat(75, 160000)
    /\ camera.far = RInt(46875)
    /\ RLt(camera.near, camera.far)

(***************************************************************************)
(* C5  ModelManager.frameObject: the distance is strictly increasing       *)
(***************************************************************************)
Increasing(a, b) ==
    /\ (/\ RLt(Zero, a.size) /\ RLt(a.size, b.size)
        /\ a.padding = b.padding /\ ~RLt(a.padding, RInt(1)))
       => RLt(a.dist, b.dist)
    /\ (/\ RLt(Zero, a.size) /\ a.size = b.size
        /\ ~RLt(a.padding, RInt(1)) /\ RLt(a.padding, b.padding))
       => RLt(a.dist, b.dist)

\* C5: for a fixed camera field of view, of two calls of frameObject the one
\* with the larger size s (s > 0, same padding >= 1) computes the strictly
\* larger distance d, and so does the one with the larger padding (padding >= 1,
\* same s > 0).
C5_DistIncreasing ==
    (Len(samples) = 2 /\ samples[1].fov = samples[2].fov) =>
        /\ Increasing(samples[1], samples[2])
        /\ Increasing(samples[2], samples[1])

\* two calls under one fov that differ in padding alone, the first with the
\* smaller one, and whose distances differ accordingly
C5_Witness ==
    /\ Len(samples) = 2
    /\ samples[1].fov = samples[2].fov
    /\ RLt(Zero, samples[1].size) /\ samples[1].size = samples[2].size
    /\ samples[1].padding = RInt(1) /\ RLt(samples[1].padding, samples[2].padding)
    /\ RLt(samples[1].dist, samples[2].dist)

AsClaimed(c) ==
    LET d == ClaimedDist(LargestExtent(c.box), c.fov, ClaimedPadding(c))
    IN  /\ c.size = LargestExtent(c.box)
        /\ c.dist = d
        /\ PoseIs(GetCenter(c.box), d)
        /\ camera.near = RDiv(d, Hundred)
        /\ camera.far  = RMul(d, Hundred)

C1_Original ==
    (abortedEarly /\ outcome # "none") => outcome = "Cancelled"

\* C2 as claimed: when the primary load succeeded and the environment-map load
\* failed, load resolves with the Asset and no material's environment slot has
\* been assigned.
C2_Original ==
    (envMapHDR /\ primary = "resolved" /\ envBackend = "error" /\ lpc = "done") =>
        /\ outcome = "Asset"
        /\ \A i \in DOMAIN meshes : meshes[i].envMap = "null"

\* C3 as claimed: a call issues exactly one backend request and settles exactly
\* once, as an Asset, LoadFailed or Cancelled, and a result that was discarded
\* is never post-processed.
C3_Original ==
    /\ requests <= 1
    /\ settled <= 1
    /\ outcome # "none" =>
          /\ requests = 1
          /\ settled = 1
          /\ outcome \in {"Asset", "LoadFailed", "Cancelled"}
    /\ primary # "resolved" =>
          \A i \in DOMAIN meshes : ~meshes[i].castShadow /\ meshes[i].envMap = "null"

\* C7 as claimed: once the HDR texture has loaded, by the time load settles the
\* probe has been generated from it and the texture disposed after that, also
\* when probe generation fails.
C7_Original ==
    (envBackend = "success" /\ lpc = "done") =>
        \E i, j \in DOMAIN log :
            i < j /\ log[i] = "probe" /\ log[j] = "dispose"

(***************************************************************************)
(* C9, C10  the viewer's single slot                                       *)
(***************************************************************************)
\* C9 as claimed: the scene holds at most one variant model, and when it holds
\* one, that model is currentModel.
C9_Original ==
    /\ Cardinality(sceneModels) <= 1
    /\ sceneModels # {} => (currentModel # <<>> /\ sceneModels = {currentModel[1]})

\* C10 as claimed: once no load is pending and none has failed, the displayed
\* model, the one the camera is framed on, is that of the variant selected last.
C10_Original ==
    (pending = {} /\ ~anyFailed /\ lastSelected # <<>>) =>
        /\ currentModel # <<>>
        /\ currentModel[1].variant = lastSelected[1]
        /\ target = GetCenter(VariantBox(lastSelected[1]))
====
